---------------------------- MODULE Spec2Model ----------------------------
(***************************************************************************)
(* Model of excel_etl_script.py: the grid segmentation (extract_lead_data, *)
(* extract_product_data), the block transform (transform_product_data),    *)
(* process_file and main.                                                  *)
(*                                                                         *)
(* A DataFrame is a sequence of rows; a row is a function from the column  *)
(* labels 0..15 to cells; a cell is a string, NaN being the null cell.     *)
(* The code indexes rows from 0: iloc(df, i, c) is df.iloc[i, c].          *)
(***************************************************************************)
EXTENDS Integers, Sequences, FiniteSets, TLC

VARIABLES
    op, input, output,  \* SpecFn: the function applied, its argument, its result
    pc,                 \* where the run is
    files,              \* os.listdir(folder_path), in the order it is walked
    idx,                \* the position of the current entry of files
    df, month,          \* process_file: the grid read, the month list
    leads, li,          \* the LEAD blocks and the position of the current one
    file_results,       \* process_file's result_data
    result_data,        \* main's result_data
    final_df,           \* pd.concat's result
    written,            \* how many times result.xlsx was written
    raised,             \* the call that raised, "" while none has
    file_log            \* what process_file returned, per file processed

vars == <<op, input, output, pc, files, idx, df, month, leads, li,
          file_results, result_data, final_df, written, raised, file_log>>

(***************************************************************************)
(* Program constants.                                                      *)
(***************************************************************************)
\* usecols='B:Q': the grid has 16 columns, labelled 0..15
NCols == 16
\* a column-1 value is a LEAD marker only if it occurs fewer than 9 times
LeadRepeat == 9
\* iloc[1:10, 4:16]: the metric region's row and column slices
RowStart == 1
RowStop == 10
ColStart == 4
ColStop == 16

NaN == "NaN"
Cols == 0..(NCols - 1)

notna(v) == v # NaN

\* Python's != on cells: a NaN differs from everything, itself included
ne(a, b) == a = NaN \/ b = NaN \/ a # b

iloc(d, i, c) == d[i + 1][c]

\* row[c:].isna().all()
isna_all(row, c) == \A k \in c..(NCols - 1) : row[k] = NaN

\* df[df[1] == v].count()[1]
Count1(d, v) == Cardinality({k \in 1..Len(d) : d[k][1] = v})

(***************************************************************************)
(* extract_lead_data                                                       *)
(***************************************************************************)
\* Condition 1: column 1 is non-null, columns 2.. are all null
LeadShape(row) == notna(row[1]) /\ isna_all(row, 2)

\* the threshold test with <= for <
LeadRareOrNine(d, v) == Count1(d, v) <= LeadRepeat

\* Condition 2: the column-1 value appears less than 9 times
LeadRare(d, v) == Count1(d, v) < LeadRepeat

\* Condition 3: the value is different from the previous row's
LeadDiffers(d, i) == i = 0 \/ ne(iloc(d, i, 1), iloc(d, i - 1, 1))

\* lead_df.iloc[0, 0]
LeadValue(lead_df) == iloc(lead_df, 0, 0)

\* pd.DataFrame(current_lead) with its label: "index" is the frame's index
\* before reset_index(drop=True) drops it, the rows' positions in df
LeadClose(cur) ==
    LET lead_df == [k \in 1..Len(cur) |-> cur[k].row]
    IN  [lead_df |-> lead_df,
         lead_value |-> LeadValue(lead_df),
         index |-> [k \in 1..Len(cur) |-> cur[k].name]]

\* one iteration of the loop over df.iterrows()
LeadStep(st, d, i) ==
    LET row == d[i + 1]
        item == [name |-> i, row |-> row]
    IN  IF LeadShape(row)
        THEN IF LeadRare(d, row[1])
             THEN IF LeadDiffers(d, i)
                  THEN [result |-> IF st.current_lead # <<>>
                                   THEN Append(st.result, LeadClose(st.current_lead))
                                   ELSE st.result,
                        current_lead |-> <<item>>]
                  ELSE st
             ELSE st
        ELSE IF st.current_lead # <<>>
             THEN [st EXCEPT !.current_lead = Append(@, item)]
             ELSE st

RECURSIVE LeadScan(_, _, _)
LeadScan(st, d, i) ==
    IF i >= Len(d) THEN st ELSE LeadScan(LeadStep(st, d, i), d, i + 1)

extract_lead_data(d) ==
    LET st == LeadScan([result |-> <<>>, current_lead |-> <<>>], d, 0)
    IN  IF st.current_lead # <<>>
        THEN Append(st.result, LeadClose(st.current_lead))
        ELSE st.result

(***************************************************************************)
(* extract_product_data                                                    *)
(***************************************************************************)
\* the LEAD rule's repetition threshold applied to column 2 as well
ProductStartRare(lead_df, i) ==
    /\ notna(iloc(lead_df, i, 2))
    /\ isna_all(lead_df[i + 1], 3)
    /\ Cardinality({k \in 1..Len(lead_df) : lead_df[k][2] = iloc(lead_df, i, 2)})
          < LeadRepeat
    /\ (i = 0 \/ ne(iloc(lead_df, i, 2), iloc(lead_df, i - 1, 2)))

\* the start test without the null test of columns 3..15
ProductStartAnyShape(lead_df, i) ==
    /\ notna(iloc(lead_df, i, 2))
    /\ (i = 0 \/ ne(iloc(lead_df, i, 2), iloc(lead_df, i - 1, 2)))

\* pd.notna(row[2]) and lead_df.iloc[i, 3:].isna().all()
\*     and (i == 0 or row[2] != lead_df.iloc[i-1, 2])
ProductStart(lead_df, i) ==
    /\ notna(iloc(lead_df, i, 2))
    /\ isna_all(lead_df[i + 1], 3)
    /\ (i = 0 \/ ne(iloc(lead_df, i, 2), iloc(lead_df, i - 1, 2)))

\* product_df.iloc[0, 2]
ProductValue(product_df) == iloc(product_df, 0, 2)

ProductClose(cur) ==
    LET product_df == [k \in 1..Len(cur) |-> cur[k].row]
    IN  [product_df |-> product_df,
         product_value |-> ProductValue(product_df),
         index |-> [k \in 1..Len(cur) |-> cur[k].name]]

ProductStep(st, lead_df, i) ==
    LET item == [name |-> i, row |-> lead_df[i + 1]]
    IN  IF ProductStart(lead_df, i)
        THEN [result |-> IF st.current_product # <<>>
                         THEN Append(st.result, ProductClose(st.current_product))
                         ELSE st.result,
              current_product |-> <<item>>]
        ELSE IF st.current_product # <<>>
             THEN [st EXCEPT !.current_product = Append(@, item)]
             ELSE st

RECURSIVE ProductScan(_, _, _)
ProductScan(st, lead_df, i) ==
    IF i >= Len(lead_df) THEN st
    ELSE ProductScan(ProductStep(st, lead_df, i), lead_df, i + 1)

extract_product_data(lead_df) ==
    LET st == ProductScan([result |-> <<>>, current_product |-> <<>>], lead_df, 0)
    IN  IF st.current_product # <<>>
        THEN Append(st.result, ProductClose(st.current_product))
        ELSE st.result

(***************************************************************************)
(* transform_product_data                                                  *)
(*                                                                         *)
(* A frame is [columns: the labels in order, rows: one sequence of values  *)
(* per row, aligned with columns].  Labels need not be distinct.           *)
(***************************************************************************)
\* str.strip() on the column-3 texts the inputs use
Strip(s) ==
    CASE s = " M2 " -> "M2"
      [] s = "M3 "  -> "M3"
      [] s = " M1"  -> "M1"
      [] OTHER      -> s

RECURSIVE SelectSeq2(_, _)
\* positions of s, in order, whose element satisfies the membership in keep
SelectSeq2(s, keep) ==
    IF s = <<>> THEN <<>>
    ELSE LET rest == SelectSeq2(Tail(s), keep)
         IN  IF Head(s) \in keep THEN <<Head(s)>> \o rest ELSE rest

\* the names taken from the rows of the metric region alone
NewColumnsOfRegion(product_df) ==
    LET ks == SelectSeq2([k \in 1..Len(product_df) |-> k],
                         {k \in 2..Len(product_df) :
                             k <= 10 /\ notna(product_df[k][3])})
    IN  [n \in 1..Len(ks) |-> Strip(product_df[ks[n]][3])]

\* product_df.iloc[:, 3].dropna().str.strip().tolist()
NewColumns(product_df) ==
    LET ks == SelectSeq2([k \in 1..Len(product_df) |-> k],
                         {k \in 1..Len(product_df) : notna(product_df[k][3])})
    IN  [n \in 1..Len(ks) |-> Strip(product_df[ks[n]][3])]

Min(a, b) == IF a < b THEN a ELSE b
Max(a, b) == IF a < b THEN b ELSE a

\* the number of rows of product_df.iloc[1:10, ...]
DataRows(product_df) == Max(0, Min(RowStop, Len(product_df)) - RowStart)

\* the region taken from the block's first row on, iloc[0:9, 4:16]
ReshapedDataFromFirstRow(product_df) ==
    [m \in 1..(ColStop - ColStart) |->
        [k \in 1..DataRows(product_df) |->
            iloc(product_df, k - 1, ColStart + m - 1)]]

\* pd.DataFrame(product_df.iloc[1:10, 4:16].values).T : 12 rows, one per
\* column 4..15, each holding that column's cell of the rows 1..9
ReshapedData(product_df) ==
    [m \in 1..(ColStop - ColStart) |->
        [k \in 1..DataRows(product_df) |->
            iloc(product_df, RowStart + k - 1, ColStart + m - 1)]]

\* frame[label] = values : every column so labelled is overwritten, and a
\* new column is added at the end when there is none
SetColumn(frame, label, values) ==
    IF \E c \in 1..Len(frame.columns) : frame.columns[c] = label
    THEN [frame EXCEPT !.rows =
            [r \in 1..Len(frame.rows) |->
                [c \in 1..Len(frame.columns) |->
                    IF frame.columns[c] = label THEN values[r]
                    ELSE frame.rows[r][c]]]]
    ELSE [columns |-> Append(frame.columns, label),
          rows |-> [r \in 1..Len(frame.rows) |-> Append(frame.rows[r], values[r])]]

RECURSIVE Positions(_, _)
\* for each label of order in turn, the positions of the columns so labelled
Positions(columns, order) ==
    IF order = <<>> THEN <<>>
    ELSE SelectSeq2([c \in 1..Len(columns) |-> c],
                    {c \in 1..Len(columns) : columns[c] = Head(order)})
         \o Positions(columns, Tail(order))

\* frame[new_order]
Reorder(frame, order) ==
    LET ps == Positions(frame.columns, order)
    IN  [columns |-> [c \in 1..Len(ps) |-> frame.columns[ps[c]]],
         rows |-> [r \in 1..Len(frame.rows) |->
                     [c \in 1..Len(ps) |-> frame.rows[r][ps[c]]]]]

Scalar(v) == [r \in 1..(ColStop - ColStart) |-> v]

KeyColumns == <<"LEAD", "PRODUCT GROUP", "TYPE", "PRODUCT", "Month">>

\* reshaped_data.columns = new_columns raises unless the lengths agree
LengthMismatch(product_df) ==
    Len(NewColumns(product_df)) # DataRows(product_df)

\* .str raises on a column that holds no text: pd.DataFrame(current_product)
\* infers float64 for a column 3 that is null in every row
NoTextColumn(product_df) == \A k \in 1..Len(product_df) : product_df[k][3] = NaN

Failure == [error |-> TRUE]

transform_product_data(product_df, lead_value, product_value, mon) ==
    IF NoTextColumn(product_df) \/ LengthMismatch(product_df) THEN Failure
    ELSE LET f0 == [columns |-> NewColumns(product_df),
                    rows |-> ReshapedData(product_df)]
             f1 == SetColumn(f0, "PRODUCT GROUP", Scalar(iloc(product_df, 0, 0)))
             f2 == SetColumn(f1, "TYPE", Scalar(iloc(product_df, 0, 1)))
             f3 == SetColumn(f2, "Month", mon)
             f4 == SetColumn(f3, "LEAD", Scalar(lead_value))
             f5 == SetColumn(f4, "PRODUCT", Scalar(product_value))
         IN  Reorder(f5, KeyColumns \o NewColumns(product_df))

IsFailure(x) == "error" \in DOMAIN x

RECURSIVE TransformAll(_, _, _)
\* process_file's inner loop over one LEAD block's product_data: the frames
\* appended to result_data, in order; raised when a transform raises
TransformAll(product_data, lead_value, mon) ==
    IF product_data = <<>> THEN [raised |-> FALSE, frames |-> <<>>]
    ELSE LET t == transform_product_data(Head(product_data).product_df, lead_value,
                                         Head(product_data).product_value, mon)
             rest == TransformAll(Tail(product_data), lead_value, mon)
         IN  IF IsFailure(t) \/ rest.raised THEN [raised |-> TRUE, frames |-> <<>>]
             ELSE [raised |-> FALSE, frames |-> <<t>> \o rest.frames]

(***************************************************************************)
(* Inputs.                                                                 *)
(***************************************************************************)
\* the longest free part of a grid handed to extract_lead_data
MaxFree == 4
\* the longest LEAD block handed to extract_product_data
MaxLeadRows == 3
\* the most rows after the first of a block handed to transform_product_data
MaxBody == 10

\* a row with columns 0..3 as given and, unless tag is NaN, a distinct text
\* in each of the columns 4..15
MkRow(c0, c1, c2, c3, tag) ==
    [c \in Cols |->
        CASE c = 0 -> c0
          [] c = 1 -> c1
          [] c = 2 -> c2
          [] c = 3 -> c3
          [] OTHER -> IF tag = NaN THEN NaN ELSE tag \o "_" \o ToString(c)]

SeqsUpTo(S, n) == UNION {[1..k -> S] : k \in 0..n}

Repeat(row, n) == [k \in 1..n |-> row]

\* rows of a grid as extract_lead_data sees them
LeadRowA == MkRow(NaN, "L1", NaN, NaN, NaN)
LeadRowB == MkRow("G", "L2", NaN, NaN, NaN)
DataRowD == MkRow(NaN, "L1", NaN, "M1", "d")
DataRowN == MkRow(NaN, NaN, NaN, "M2", "n")
LeadRows == {LeadRowA, LeadRowB, DataRowD, DataRowN}

\* one short of the repetition threshold
PadLen == LeadRepeat - 1
Pads == {<<>>, Repeat(LeadRowA, PadLen), Repeat(DataRowD, PadLen)}

LeadInputs ==
    {p \o f : p \in Pads, f \in SeqsUpTo(LeadRows, MaxFree)}
    \cup {f \o p : p \in Pads, f \in SeqsUpTo(LeadRows, MaxFree)}

\* rows of a LEAD block as extract_product_data sees them
ProdRowL == MkRow("L1", "L1", NaN, NaN, NaN)
ProdRowP == MkRow("G", "T", "P1", NaN, NaN)
ProdRowQ == MkRow("G2", "T2", "P2", NaN, NaN)
ProdRowM == MkRow(NaN, NaN, NaN, "M1", "m")
ProdRowX == MkRow(NaN, NaN, "P1", "M2", "x")
ProdRows == {ProdRowL, ProdRowP, ProdRowQ, ProdRowM, ProdRowX}

\* as many marked rows as the LEAD threshold counts
ProdPads == {<<>>, Repeat(ProdRowX, LeadRepeat), Repeat(ProdRowM, LeadRepeat)}

ProductInputs ==
    {p \o f : p \in ProdPads, f \in SeqsUpTo(ProdRows, MaxLeadRows)}
    \cup {f \o p : p \in ProdPads, f \in SeqsUpTo(ProdRows, MaxLeadRows)}

\* the column-3 text of the k-th metric row, in four namings: distinct,
\* distinct with blanks around, equal once stripped, one a key column's name
NameVariants == {"clean", "padded", "dup", "key"}
MetricName(v, k) ==
    CASE v = "padded" /\ k = 1 -> " M1"
      [] v = "padded" /\ k = 2 -> " M2 "
      [] v = "padded" /\ k = 3 -> "M3 "
      [] v = "dup" /\ k = 2    -> " M1"
      [] v = "key" /\ k = 4    -> "TYPE"
      [] OTHER                 -> "M" \o ToString(k)

HeaderRow == MkRow("G", "T", "P1", NaN, NaN)
BlankRow == MkRow(NaN, NaN, NaN, NaN, NaN)

\* a block: the header row, then metric rows and blank rows as in pattern
BlockOf(v, pattern) ==
    <<HeaderRow>> \o
    [p \in 1..Len(pattern) |->
        IF pattern[p]
        THEN MkRow(NaN, NaN, NaN,
                   MetricName(v, Cardinality({q \in 1..p : pattern[q]})),
                   "v" \o ToString(p))
        ELSE BlankRow]

Months == <<"Jan", "Feb", "Mar", "Apr", "May", "Jun",
            "Jul", "Aug", "Sep", "Oct", "Nov", "Dec">>

TransformInputs ==
    {[product_df |-> BlockOf(v, pattern), lead_value |-> "LV",
      product_value |-> "PV", month |-> Months] :
        v \in NameVariants, pattern \in SeqsUpTo(BOOLEAN, MaxBody)}

(***************************************************************************)
(* SpecFn: each function applied to one input.                             *)
(***************************************************************************)
Idle ==
    /\ files = <<>> /\ idx = 0 /\ df = <<>> /\ month = <<>> /\ leads = <<>>
    /\ li = 0 /\ file_results = <<>> /\ result_data = <<>>
    /\ final_df = <<>> /\ written = 0 /\ raised = "" /\ file_log = <<>>

InitFn ==
    /\ pc = "ready"
    /\ output = <<>>
    /\ \/ op = "lead" /\ input \in LeadInputs
       \/ op = "product" /\ input \in ProductInputs
       \/ op = "transform" /\ input \in TransformInputs
    /\ Idle

ApplyLead ==
    /\ pc = "ready" /\ op = "lead"
    /\ output' = extract_lead_data(input)
    /\ pc' = "done"
    /\ UNCHANGED <<op, input, files, idx, df, month, leads, li, file_results,
                   result_data, final_df, written, raised, file_log>>

ApplyProduct ==
    /\ pc = "ready" /\ op = "product"
    /\ output' = extract_product_data(input)
    /\ pc' = "done"
    /\ UNCHANGED <<op, input, files, idx, df, month, leads, li, file_results,
                   result_data, final_df, written, raised, file_log>>

ApplyTransform ==
    /\ pc = "ready" /\ op = "transform"
    /\ output' = transform_product_data(input.product_df, input.lead_value,
                                        input.product_value, input.month)
    /\ pc' = "done"
    /\ UNCHANGED <<op, input, files, idx, df, month, leads, li, file_results,
                   result_data, final_df, written, raised, file_log>>

NextFn == ApplyLead \/ ApplyProduct \/ ApplyTransform

SpecFn == InitFn /\ [][NextFn]_vars

(***************************************************************************)
(* Properties of extract_lead_data.                                        *)
(***************************************************************************)
LeadDone == pc = "done" /\ op = "lead"

RECURSIVE FlatIndex(_)
\* the original positions of the rows of the blocks, in emission order
FlatIndex(blocks) ==
    IF blocks = <<>> THEN <<>>
    ELSE Head(blocks).index \o FlatIndex(Tail(blocks))

\* the four conditions of a LEAD-start, on row i of grid g
IsLeadStart(g, i) ==
    /\ g[i + 1][1] # NaN
    /\ \A c \in 2..15 : g[i + 1][c] = NaN
    /\ Cardinality({k \in 1..Len(g) : g[k][1] = g[i + 1][1]}) < 9
    /\ (i = 0 \/ g[i][1] # g[i + 1][1])

\* C1: row i of the grid is the first row of an emitted LeadBlock if and only
\* if column 1 is non-null, columns 2..15 are null, the column-1 value occurs
\* fewer than 9 times in the grid's column 1, and i is the first row or the
\* value differs from that of row i-1; a value occurring 9 or more times
\* never starts a block.
C1_LeadStartIff ==
    LeadDone =>
        \A i \in 0..(Len(input) - 1) :
            /\ (\E b \in DOMAIN output :
                    output[b].index[1] = i /\ output[b].lead_df[1] = input[i + 1])
               <=> IsLeadStart(input, i)
            /\ Cardinality({k \in 1..Len(input) : input[k][1] = input[i + 1][1]}) >= 9
               => \A b \in DOMAIN output : output[b].index[1] # i

\* a grid where one value of column 1 starts a block and another, on
\* rows of the LEAD shape, occurs 9 times and starts none
C1_Witness ==
    /\ LeadDone
    /\ output # <<>>
    /\ \E i \in 0..(Len(input) - 1) :
          /\ input[i + 1][1] # NaN
          /\ \A c \in 2..15 : input[i + 1][c] = NaN
          /\ (i = 0 \/ input[i][1] # input[i + 1][1])
          /\ Cardinality({k \in 1..Len(input) : input[k][1] = input[i + 1][1]}) = 9

\* C2: the rows of the emitted LeadBlocks, in emission order, are exactly the
\* grid rows from the first LEAD-start row through the last row.
C2_BlocksCoverTail ==
    LeadDone =>
        LET starts == {i \in 0..(Len(input) - 1) : IsLeadStart(input, i)}
        IN  IF starts = {} THEN output = <<>>
            ELSE LET first == CHOOSE i \in starts : \A j \in starts : i <= j
                 IN  FlatIndex(output) =
                        [k \in 1..(Len(input) - first) |-> first + k - 1]

\* C3: the label of every emitted LeadBlock is the column-1 value of the
\* block's first row.
C3_LabelIsColumn1 ==
    LeadDone =>
        \A b \in DOMAIN output : output[b].lead_value = output[b].lead_df[1][1]

(***************************************************************************)
(* Properties of extract_product_data.                                     *)
(***************************************************************************)
ProductDone == pc = "done" /\ op = "product"

IsProductStart(g, i) ==
    /\ g[i + 1][2] # NaN
    /\ \A c \in 3..15 : g[i + 1][c] = NaN
    /\ (i = 0 \/ g[i][2] # g[i + 1][2])

\* C9: row i of a LEAD block opens a ProductBlock if and only if column 2 is
\* non-null, columns 3..15 are null and i is the first row or the column-2
\* value differs from that of row i-1, however often the value occurs; the
\* other rows are appended to the open block or, with none open, discarded;
\* every block's label is column 2 of its first row.
C9_ProductStartIff ==
    ProductDone =>
        LET starts == {i \in 0..(Len(input) - 1) : IsProductStart(input, i)}
        IN  /\ \A i \in 0..(Len(input) - 1) :
                  (\E b \in DOMAIN output :
                       output[b].index[1] = i /\ output[b].product_df[1] = input[i + 1])
                  <=> i \in starts
            /\ IF starts = {} THEN output = <<>>
               ELSE LET first == CHOOSE i \in starts : \A j \in starts : i <= j
                    IN  FlatIndex(output) =
                           [k \in 1..(Len(input) - first) |-> first + k - 1]
            /\ \A b \in DOMAIN output :
                  /\ output[b].product_df[1][2] # NaN
                  /\ \A c \in 3..15 : output[b].product_df[1][c] = NaN
                  /\ output[b].product_value = output[b].product_df[1][2]
                  /\ output[b].product_df =
                        [k \in 1..Len(output[b].index) |-> input[output[b].index[k] + 1]]

\* a LEAD block with a discarded leading row, a block of two or more rows,
\* and a start row whose column-2 value occurs 9 or more times
C9_Witness ==
    /\ ProductDone
    /\ output # <<>>
    /\ output[1].index[1] > 0
    /\ \E b \in DOMAIN output :
          /\ Len(output[b].index) >= 2
          /\ Cardinality({k \in 1..Len(input) :
                             input[k][2] = output[b].product_value}) >= 9

(***************************************************************************)
(* Properties of transform_product_data.                                   *)
(***************************************************************************)
TransformDone == pc = "done" /\ op = "transform"

\* C5: the transform fails, and yields no records, when the count of non-null
\* column-3 values is not 9 or the rows after the first are not 9.
C5_FailsUnlessNineByTwelve ==
    TransformDone =>
        LET d == input.product_df
            names == Cardinality({k \in 1..Len(d) : d[k][3] # NaN})
        IN  (names # 9 \/ Len(d) - 1 # 9) => IsFailure(output)

\* whitespace-trimmed column-3 text
Trimmed(s) ==
    IF s \in {" M1"} THEN "M1"
    ELSE IF s \in {" M2 "} THEN "M2"
    ELSE IF s \in {"M3 "} THEN "M3"
    ELSE s

\* exactly 9 metric rows after the first row, and 9 non-null names
NineMetricRows(d) ==
    /\ Len(d) >= 10
    /\ \A k \in 1..Len(d) : (d[k][3] # NaN) <=> (k \in 2..10)

\* the 12 records of the claim: the key fields, then the field of the k-th
\* name holding the cell of block row k+1, column 4+m
TwelveRecords(d, lead_value, product_value, mon, out) ==
    /\ ~IsFailure(out)
    /\ out.columns = <<"LEAD", "PRODUCT GROUP", "TYPE", "PRODUCT", "Month">>
                     \o [k \in 1..9 |-> Trimmed(d[k + 1][3])]
    /\ Len(out.rows) = 12
    /\ \A m \in 0..11 :
          LET rec == out.rows[m + 1]
          IN  /\ Len(rec) = 14
              /\ rec[1] = lead_value
              /\ rec[2] = d[1][0]
              /\ rec[3] = d[1][1]
              /\ rec[4] = product_value
              /\ rec[5] = mon[m + 1]
              /\ \A k \in 0..8 : rec[6 + k] = d[k + 2][4 + m]

DistinctNames(d) ==
    /\ \A k, l \in 2..10 : k # l => Trimmed(d[k][3]) # Trimmed(d[l][3])
    /\ \A k \in 2..10 :
          Trimmed(d[k][3]) \notin {"LEAD", "PRODUCT GROUP", "TYPE", "PRODUCT", "Month"}

\* C8 as stated: every block with 9 metric rows and 9 names yields the 12
\* records.
C8_Original ==
    (TransformDone /\ NineMetricRows(input.product_df)) =>
        TwelveRecords(input.product_df, input.lead_value, input.product_value,
                      input.month, output)

\* C8 amended: every block with 9 metric rows whose 9 trimmed names are
\* pairwise distinct and are none of LEAD, PRODUCT GROUP, TYPE, PRODUCT,
\* Month yields the 12 records.
C8_TwelveRecords ==
    (TransformDone /\ NineMetricRows(input.product_df)
        /\ DistinctNames(input.product_df)) =>
        TwelveRecords(input.product_df, input.lead_value, input.product_value,
                      input.month, output)

\* a block of 9 metric rows with distinct names, some with blanks around
C8_Witness ==
    /\ TransformDone
    /\ NineMetricRows(input.product_df)
    /\ DistinctNames(input.product_df)
    /\ \E k \in 2..10 : Trimmed(input.product_df[k][3]) # input.product_df[k][3]
    /\ ~IsFailure(output)

(***************************************************************************)
(* Exchanging two rows of a block.                                         *)
(***************************************************************************)
Swap(g, i, j) == [g EXCEPT ![i + 1] = g[j + 1], ![j + 1] = g[i + 1]]

\* the start row and the length of each block, in order
Boundaries(blocks) ==
    [b \in 1..Len(blocks) |-> <<blocks[b].index[1], Len(blocks[b].index)>>]

\* rows i and j lie in one emitted block and neither is its start row
SameBlockNotStart(blocks, i, j) ==
    \E b \in 1..Len(blocks) :
        \E p, q \in 2..Len(blocks[b].index) :
            blocks[b].index[p] = i /\ blocks[b].index[q] = j

RECURSIVE RowTotal(_)
RowTotal(frames) ==
    IF frames = <<>> THEN 0 ELSE Len(Head(frames).rows) + RowTotal(Tail(frames))

\* the number of records the blocks of one LEAD block yield; -1 when a
\* transform raises
RecordCount(blocks) ==
    LET t == TransformAll(blocks, "LV", Months)
    IN  IF t.raised THEN -1 ELSE RowTotal(t.frames)

extract_month_list(d) == [m \in 1..(ColStop - ColStart) |-> iloc(d, 1, ColStart + m - 1)]

\* an assignment in place of the extend
extendOverwrites(results, more) == more

\* result_data.extend(file_results)
extend(results, more) == results \o more

RECURSIVE UnionColumns(_, _)
\* the labels of the frames, each once, in the order they first appear
UnionColumns(seen, frames) ==
    IF frames = <<>> THEN seen
    ELSE LET cs == Head(frames).columns
             fresh == SelectSeq2(cs, {cs[c] : c \in 1..Len(cs)}
                                     \ {seen[c] : c \in 1..Len(seen)})
         IN  UnionColumns(seen \o fresh, Tail(frames))

\* a frame's rows over the columns cols, NaN where the frame has no such column
Reindex(frame, cols) ==
    [r \in 1..Len(frame.rows) |->
        [c \in 1..Len(cols) |->
            IF \E k \in 1..Len(frame.columns) : frame.columns[k] = cols[c]
            THEN frame.rows[r][CHOOSE k \in 1..Len(frame.columns) :
                                   frame.columns[k] = cols[c]]
            ELSE NaN]]

RECURSIVE StackRows(_, _)
StackRows(frames, cols) ==
    IF frames = <<>> THEN <<>>
    ELSE Reindex(Head(frames), cols) \o StackRows(Tail(frames), cols)

\* pd.concat(result_data, ignore_index=True), of frames whose labels are
\* distinct within each frame
concat(frames) ==
    LET cols == UnionColumns(<<>>, frames)
    IN  [columns |-> cols, rows |-> StackRows(frames, cols)]

\* the most entries of the input folder
MaxFiles == 2

TitleRow == MkRow("Report", NaN, NaN, NaN, NaN)
MonthRow == [c \in Cols |-> IF c >= ColStart THEN Months[c - ColStart + 1] ELSE NaN]
ProductHeader(p) == MkRow("G", "T", p, NaN, NaN)

\* a PRODUCT start row, then n metric rows named prefix1, prefix2, ...
WholeBlock(p, prefix, n, tag) ==
    <<ProductHeader(p)>> \o
    [k \in 1..n |-> MkRow(NaN, NaN, NaN, prefix \o ToString(k), tag \o ToString(k))]

\* the grid of the concrete scenario: under the two header rows, the "L1"
\* row, the "P1" row carrying "M1" and v1..v12, 8 more metric rows, and the
\* same for "L2" and "P2"; column 0 of the LEAD rows and column 2 of the 8
\* further metric rows are not given, and are null or the label
ScenarioHalf(lead, c0, prod, c2, tag) ==
    <<MkRow(c0, lead, NaN, NaN, NaN), MkRow(NaN, NaN, prod, "M1", tag \o "1")>>
    \o [k \in 1..8 |-> MkRow(NaN, NaN, c2, "M" \o ToString(k + 1),
                             tag \o ToString(k + 1))]

ScenarioGrid(own0, own2) ==
    <<TitleRow, MonthRow>>
    \o ScenarioHalf("L1", IF own0 THEN "L1" ELSE NaN,
                    "P1", IF own2 THEN "P1" ELSE NaN, "v")
    \o ScenarioHalf("L2", IF own0 THEN "L2" ELSE NaN,
                    "P2", IF own2 THEN "P2" ELSE NaN, "w")

ScenarioGrids == {ScenarioGrid(a, b) : a, b \in BOOLEAN}

\* one LEAD with one well-formed PRODUCT block
SingleGrid(prefix) ==
    <<TitleRow, MonthRow, MkRow("A1", "L1", NaN, NaN, NaN)>>
    \o WholeBlock("P1", prefix, 9, "a")
SingleGrids == {SingleGrid("M"), SingleGrid("K")}

\* two LEADs, the first with two PRODUCT blocks
TwoLeadGrid ==
    <<TitleRow, MonthRow, MkRow("A1", "L1", NaN, NaN, NaN)>>
    \o WholeBlock("P1", "M", 9, "a") \o WholeBlock("P2", "M", 9, "b")
    \o <<MkRow("A2", "L2", NaN, NaN, NaN)>> \o WholeBlock("P3", "M", 9, "c")

\* a grid of one row; a grid with no LEAD row; a block of 10 metric rows;
\* a block of 3 metric rows
OneRowGrid == <<TitleRow>>
NoLeadGrid == <<TitleRow, MonthRow>> \o WholeBlock("P1", "M", 9, "a")
LongBlockGrid ==
    <<TitleRow, MonthRow, MkRow("A1", "L1", NaN, NaN, NaN)>>
    \o WholeBlock("P1", "M", 10, "a")
ShortBlockGrid ==
    <<TitleRow, MonthRow, MkRow("A1", "L1", NaN, NaN, NaN)>>
    \o WholeBlock("P1", "M", 3, "a")

Grids == ScenarioGrids \cup SingleGrids
         \cup {TwoLeadGrid, OneRowGrid, NoLeadGrid, LongBlockGrid, ShortBlockGrid}

\* an entry of the folder: a name ending in .xlsx or not, a file that
\* pd.read_excel reads or not
Entries ==
    {[xlsx |-> TRUE, readable |-> TRUE, grid |-> g] : g \in Grids}
    \cup {[xlsx |-> TRUE, readable |-> FALSE, grid |-> <<>>],
          [xlsx |-> FALSE, readable |-> TRUE, grid |-> <<>>]}

Init ==
    /\ op = "main" /\ input = <<>> /\ output = <<>>
    /\ files \in SeqsUpTo(Entries, MaxFiles)
    /\ pc = "loop"
    /\ idx = 1
    /\ df = <<>> /\ month = <<>> /\ leads = <<>> /\ li = 0
    /\ file_results = <<>> /\ result_data = <<>> /\ final_df = <<>>
    /\ written = 0 /\ raised = "" /\ file_log = <<>>

\* an exception ends the run
Raise(what) == pc' = "error" /\ raised' = what

\* if filename.endswith(".xlsx") is false: the entry is passed over
SkipEntry ==
    /\ pc = "loop" /\ idx <= Len(files) /\ ~files[idx].xlsx
    /\ idx' = idx + 1
    /\ UNCHANGED <<op, input, output, pc, files, df, month, leads, li, file_results,
                   result_data, final_df, written, raised, file_log>>

\* pd.read_excel(file_path, usecols='B:Q', header=None)
ReadExcel ==
    /\ pc = "loop" /\ idx <= Len(files) /\ files[idx].xlsx
    /\ IF files[idx].readable
       THEN df' = files[idx].grid /\ pc' = "months" /\ UNCHANGED raised
       ELSE Raise("read_excel") /\ UNCHANGED df
    /\ UNCHANGED <<op, input, output, files, idx, month, leads, li, file_results,
                   result_data, final_df, written, file_log>>

\* month = extract_month_list(df): iloc[1, ...] raises on a grid of one row
ExtractMonthList ==
    /\ pc = "months"
    /\ IF Len(df) >= 2
       THEN month' = extract_month_list(df) /\ pc' = "leads" /\ UNCHANGED raised
       ELSE Raise("extract_month_list") /\ UNCHANGED month
    /\ UNCHANGED <<op, input, output, files, idx, df, leads, li, file_results,
                   result_data, final_df, written, file_log>>

\* result_data = []; the call extract_lead_data(df) of the for statement
ExtractLeadData ==
    /\ pc = "leads"
    /\ leads' = extract_lead_data(df)
    /\ li' = 1
    /\ file_results' = <<>>
    /\ pc' = "products"
    /\ UNCHANGED <<op, input, output, files, idx, df, month, result_data,
                   final_df, written, raised, file_log>>

\* one pass of the loop over the LEAD blocks
ProductLoop ==
    /\ pc = "products" /\ li <= Len(leads)
    /\ LET t == TransformAll(extract_product_data(leads[li].lead_df),
                             leads[li].lead_value, month)
       IN  IF t.raised
           THEN Raise("transform_product_data") /\ UNCHANGED <<li, file_results>>
           ELSE /\ file_results' = file_results \o t.frames
                /\ li' = li + 1
                /\ UNCHANGED <<pc, raised>>
    /\ UNCHANGED <<op, input, output, files, idx, df, month, leads, result_data,
                   final_df, written, file_log>>

\* process_file returns; result_data.extend(file_results)
Extend ==
    /\ pc = "products" /\ li > Len(leads)
    /\ result_data' = extend(result_data, file_results)
    /\ file_log' = Append(file_log, file_results)
    /\ idx' = idx + 1
    /\ pc' = "loop"
    /\ UNCHANGED <<op, input, output, files, df, month, leads, li, file_results,
                   final_df, written, raised>>

\* a concat that yields an empty frame of no frames instead of raising
ConcatOfNothing ==
    /\ pc = "loop" /\ idx > Len(files)
    /\ final_df' = concat(result_data) /\ pc' = "concat"
    /\ UNCHANGED <<op, input, output, files, idx, df, month, leads, li, file_results,
                   result_data, written, raised, file_log>>

\* final_df = pd.concat(result_data, ignore_index=True): raises on no frames
Concat ==
    /\ pc = "loop" /\ idx > Len(files)
    /\ IF result_data # <<>>
       THEN final_df' = concat(result_data) /\ pc' = "concat" /\ UNCHANGED raised
       ELSE Raise("concat") /\ UNCHANGED final_df
    /\ UNCHANGED <<op, input, output, files, idx, df, month, leads, li, file_results,
                   result_data, written, file_log>>

\* final_df.to_excel('result.xlsx', index=False)
ToExcel ==
    /\ pc = "concat"
    /\ written' = written + 1
    /\ pc' = "written"
    /\ UNCHANGED <<op, input, output, files, idx, df, month, leads, li, file_results,
                   result_data, final_df, raised, file_log>>

Next ==
    \/ SkipEntry
    \/ ReadExcel
    \/ ExtractMonthList
    \/ ExtractLeadData
    \/ ProductLoop
    \/ Extend
    \/ Concat
    \/ ToExcel

Spec == Init /\ [][Next]_vars

(***************************************************************************)
(* Properties of process_file and main.                                    *)
(***************************************************************************)
\* the LEAD blocks of grid g on which a transform raises
RaisingLeads(g) ==
    LET ls == extract_lead_data(g)
    IN  {l \in 1..Len(ls) :
            TransformAll(extract_product_data(ls[l].lead_df), ls[l].lead_value,
                         extract_month_list(g)).raised}

\* the entry is an input file that fails to load or to parse
FileFails(e) ==
    e.xlsx /\ (~e.readable \/ Len(e.grid) < 2 \/ RaisingLeads(e.grid) # {})

RECURSIVE Flatten(_)
Flatten(ss) == IF ss = <<>> THEN <<>> ELSE Head(ss) \o Flatten(Tail(ss))

InputFiles == SelectSeq2(files, {files[k] : k \in {n \in 1..Len(files) : files[n].xlsx}})

\* C4: no output is written when an input file fails to load or to parse or
\* when no record was produced; the run then ends in an error; the output is
\* written at most once, after every input file was processed without error
\* and with at least one record.
C4_AllOrNothing ==
    /\ written <= 1
    /\ written = 1 =>
          /\ pc = "written"
          /\ idx > Len(files)
          /\ \A k \in 1..Len(files) : ~FileFails(files[k])
          /\ Len(file_log) = Len(InputFiles)
          /\ RowTotal(result_data) > 0
    /\ pc = "error" => written = 0 /\ raised # ""
    /\ \A k \in 1..Len(files) : k < idx => ~FileFails(files[k])
    /\ pc \in {"concat", "written"} => RowTotal(result_data) > 0

\* a run that ended in an error on its second file, the records of the first
\* in hand and nothing written
C4_Witness ==
    /\ pc = "error"
    /\ raised = "transform_product_data"
    /\ idx = 2
    /\ result_data # <<>>
    /\ written = 0

\* the file being processed is the grid of the concrete scenario
InScenario ==
    /\ idx <= Len(files)
    /\ files[idx].xlsx /\ files[idx].readable
    /\ files[idx].grid \in ScenarioGrids

AtReturn == pc = "products" /\ li > Len(leads)

\* the frame of the scenario's n-th LEAD: 12 records with LEAD and PRODUCT
\* as labelled, Month Jan..Dec, and M1..M9 holding the transposed values
ScenarioFrame(frame, lead, prod, tag) ==
    /\ frame.columns = <<"LEAD", "PRODUCT GROUP", "TYPE", "PRODUCT", "Month">>
                       \o [k \in 1..9 |-> "M" \o ToString(k)]
    /\ Len(frame.rows) = 12
    /\ \A m \in 1..12 :
          /\ frame.rows[m][1] = lead
          /\ frame.rows[m][4] = prod
          /\ frame.rows[m][5] = Months[m]
          /\ \A k \in 1..9 :
                frame.rows[m][5 + k] = tag \o ToString(k) \o "_" \o ToString(m + 3)

\* C6 as stated: the scenario's file yields 24 records, 12 of L1/P1 and then
\* 12 of L2/P2.
C6_Original ==
    (InScenario /\ AtReturn) =>
        /\ Len(file_results) = 2
        /\ ScenarioFrame(file_results[1], "L1", "P1", "v")
        /\ ScenarioFrame(file_results[2], "L2", "P2", "w")

\* C6 amended: the scenario's file is processed without error and yields no
\* record: its two LEAD blocks are found, and no row of them opens a
\* ProductBlock, the "P1" and "P2" rows being non-null in column 3.
C6_NoRecords ==
    InScenario =>
        /\ pc # "error"
        /\ pc = "products" =>
              /\ month = Months
              /\ Len(leads) = 2
              /\ \A l \in 1..2 : Len(leads[l].lead_df) = 10
                                 /\ extract_product_data(leads[l].lead_df) = <<>>
              /\ file_results = <<>>

\* process_file about to return on the scenario's grid
C6_Witness == InScenario /\ AtReturn /\ file_results = <<>>

\* the (LEAD, PRODUCT) labels of grid g's blocks in encounter order
RECURSIVE LabelPairs(_)
LabelPairs(ls) ==
    IF ls = <<>> THEN <<>>
    ELSE LET ps == extract_product_data(Head(ls).lead_df)
         IN  [k \in 1..Len(ps) |-> <<Head(ls).lead_value, ps[k].product_value>>]
             \o LabelPairs(Tail(ls))

\* where the rows of the n-th frame start in the concatenation
Offset(frames, n) == RowTotal(SubSeq(frames, 1, n - 1))

\* C10: in a run without error the final dataset holds the records of the
\* files in processing order, those of a file in LEAD then PRODUCT order,
\* none removed, duplicated or reordered; N files of one well-formed block
\* each give 12*N records; all records have the same fields.
C10_Concatenation ==
    pc \in {"concat", "written"} =>
        /\ Len(file_log) = Len(InputFiles)
        /\ \A k \in 1..Len(file_log) :
              [n \in 1..Len(file_log[k]) |->
                  <<file_log[k][n].rows[1][1], file_log[k][n].rows[1][4]>>]
              = LabelPairs(extract_lead_data(InputFiles[k].grid))
        /\ result_data = Flatten(file_log)
        /\ Len(final_df.rows) = RowTotal(result_data)
        /\ \A r \in 1..Len(final_df.rows) :
              Len(final_df.rows[r]) = Len(final_df.columns)
        /\ \A n \in 1..Len(result_data) :
              \A r \in 1..Len(result_data[n].rows) :
                  \A c \in 1..Len(final_df.columns) :
                      LET at == {k \in 1..Len(result_data[n].columns) :
                                    result_data[n].columns[k] = final_df.columns[c]}
                          cell == final_df.rows[Offset(result_data, n) + r][c]
                      IN  /\ Cardinality(at) <= 1
                          /\ \A k \in at : cell = result_data[n].rows[r][k]
                          /\ at = {} => cell = NaN
        /\ \A n \in 1..Len(result_data) :
              \A k \in 1..Len(result_data[n].columns) :
                  \E c \in 1..Len(final_df.columns) :
                      final_df.columns[c] = result_data[n].columns[k]
        /\ (\A k \in 1..Len(InputFiles) : InputFiles[k].grid \in SingleGrids)
              => Len(final_df.rows) = 12 * Len(InputFiles)

\* two files of one well-formed block each, with different metric names,
\* concatenated and written
C10_Witness ==
    /\ pc = "written"
    /\ Len(InputFiles) = 2
    /\ \A k \in 1..2 : InputFiles[k].grid \in SingleGrids
    /\ InputFiles[1].grid # InputFiles[2].grid
    /\ Len(final_df.rows) = 24

=============================================================================
